---------------------------- MODULE Spec2Model ----------------------------
(***************************************************************************)
(* A model of src/app.py: the date normaliser format_date and the three    *)
(* request handlers get_code_frequency, get_pull_requests and get_commits. *)
(*                                                                         *)
(* Python strings are sequences of one-character strings, so that parsing  *)
(* and formatting are computed character by character.  Python values     *)
(* handed to format_date are records tagged with their type in field t.    *)
(***************************************************************************)
EXTENDS Integers, Sequences, FiniteSets, TLC

VARIABLES
    pc,           \* per invocation: "idle", "await_get", "await_open", "await_closed", "done"
    handler,      \* per invocation: the handler that was called
    request,      \* per invocation: the RepoRequest it was called with
    owner_repo,   \* per invocation: local (owner, repo) of the handler
    frequency,    \* per invocation: local frequency of get_commits
    open_prs,     \* per invocation: local open_prs of get_pull_requests
    replies,      \* per invocation: the upstream replies it has received, in order
    response,     \* per invocation: what the handler gave its caller
    padYear,      \* platform: does strftime('%Y') zero-pad a year below 1000
    fd_pc,        \* format_date driver: "start", "once", "twice"
    fd_in,        \* format_date driver: the argument of the first call
    fd_out        \* format_date driver: the results of the calls so far

vars == <<pc, handler, request, owner_repo, frequency, open_prs, replies,
          response, padYear, fd_pc, fd_in, fd_out>>

handlerVars == <<pc, handler, request, owner_repo, frequency, open_prs,
                 replies, response>>
fdVars == <<fd_pc, fd_in, fd_out>>

NULL == [t |-> "NoneType", repr |-> <<"N", "o", "n", "e">>]

-----------------------------------------------------------------------------
(* Characters and decimal numerals                                         *)

Digits == <<"0", "1", "2", "3", "4", "5", "6", "7", "8", "9">>

IsDigit(c) == \E k \in 1..10 : Digits[k] = c

DigitVal(c) == (CHOOSE k \in 1..10 : Digits[k] = c) - 1

Min(a, b) == IF a < b THEN a ELSE b

\* int(s) of a string of digits
RECURSIVE Num(_)
Num(s) ==
    IF s = <<>> THEN 0
    ELSE 10 * Num(SubSeq(s, 1, Len(s) - 1)) + DigitVal(s[Len(s)])

\* str(n) of a natural number
RECURSIVE Decimal(_)
Decimal(n) ==
    IF n < 10 THEN <<Digits[n + 1]>>
    ELSE Decimal(n \div 10) \o <<Digits[(n % 10) + 1]>>

\* n written with at least w digits, zero-filled on the left
RECURSIVE ZeroFill(_, _)
ZeroFill(s, w) == IF Len(s) >= w THEN s ELSE ZeroFill(<<"0">> \o s, w)

-----------------------------------------------------------------------------
(* The proleptic Gregorian calendar of datetime                            *)

IsLeap(y) == (y % 4 = 0) /\ ((y % 100 # 0) \/ (y % 400 = 0))

DaysInMonth(y, m) ==
    IF m = 2 THEN (IF IsLeap(y) THEN 29 ELSE 28)
    ELSE IF m \in {4, 6, 9, 11} THEN 30 ELSE 31

\* days since 1970-01-01 of the civil date y-m-d
DaysFromCivil(y, m, d) ==
    LET yy  == IF m <= 2 THEN y - 1 ELSE y
        era == yy \div 400
        yoe == yy - era * 400
        mp  == IF m > 2 THEN m - 3 ELSE m + 9
        doy == ((153 * mp + 2) \div 5) + d - 1
        doe == yoe * 365 + (yoe \div 4) - (yoe \div 100) + doy
    IN  era * 146097 + doe - 719468

\* the civil date of day z since 1970-01-01
CivilFromDays(z) ==
    LET zz  == z + 719468
        era == zz \div 146097
        doe == zz - era * 146097
        yoe == (doe - (doe \div 1460) + (doe \div 36524) - (doe \div 146096)) \div 365
        doy == doe - (365 * yoe + (yoe \div 4) - (yoe \div 100))
        mp  == (5 * doy + 2) \div 153
        d   == doy - ((153 * mp + 2) \div 5) + 1
        m   == IF mp < 10 THEN mp + 3 ELSE mp - 9
        y   == yoe + era * 400
    IN  [year |-> IF m <= 2 THEN y + 1 ELSE y, month |-> m, day |-> d]

\* datetime(year, month, day): a datetime value (time of day in seconds)
DateTime(y, m, d, s) ==
    [t |-> "datetime", year |-> y, month |-> m, day |-> d, sod |-> s]

\* Python values of the other types format_date may be handed
PyInt(n) == [t |-> "int", big |-> FALSE, v |-> n]
\* an integer beyond the years 1..9999 (and beyond the 32-bit integers of TLC),
\* kept as its decimal numeral
PyBigInt(numeral) == [t |-> "int", big |-> TRUE, repr |-> numeral]
\* True and False are integers to isinstance(x, int)
PyBool(b) ==
    [t |-> "bool", big |-> FALSE, v |-> IF b THEN 1 ELSE 0,
     repr |-> IF b THEN <<"T", "r", "u", "e">> ELSE <<"F", "a", "l", "s", "e">>]
PyStr(s) == [t |-> "str", s |-> s]
PyOther(typ, repr) == [t |-> typ, repr |-> repr]

\* datetime.utcfromtimestamp(x): raises for a timestamp outside the years 1..9999
utcfromtimestamp(x) ==
    IF x.big THEN [exc |-> TRUE]
    ELSE LET c == CivilFromDays(x.v \div 86400)
         IN  [exc |-> FALSE, dt |-> DateTime(c.year, c.month, c.day, x.v % 86400)]

\* dt + timedelta(days=n)
AddDays(dt, n) ==
    LET c == CivilFromDays(DaysFromCivil(dt.year, dt.month, dt.day) + n)
    IN  DateTime(c.year, c.month, c.day, dt.sod)

\* the text of %Y: the C library decides whether a year below 1000 is zero-filled
YearText(numeral) == IF padYear THEN ZeroFill(numeral, 4) ELSE numeral

\* strftime with the format '%m/%d/%Y' in place of '%Y-%m-%d'
strftime_month_first(dt) ==
    ZeroFill(Decimal(dt.month), 2) \o <<"/">> \o ZeroFill(Decimal(dt.day), 2)
        \o <<"/">> \o YearText(Decimal(dt.year))

\* dt.strftime('%Y-%m-%d')
strftime(dt) ==
    YearText(Decimal(dt.year))
        \o <<"-">> \o ZeroFill(Decimal(dt.month), 2)
        \o <<"-">> \o ZeroFill(Decimal(dt.day), 2)

-----------------------------------------------------------------------------
(* datetime.strptime for the five formats of format_date                   *)

\* the formats, in the order format_date tries them
Formats ==
    << <<"%Y", "-", "%m", "-", "%d">>,
       <<"%Y", "-", "%m">>,
       <<"%Y", "/", "%m", "/", "%d">>,
       <<"%d", "/", "%m", "/", "%Y">>,
       <<"%m", "/", "%d", "/", "%Y">> >>

IsDirective(f) == f \in {"%Y", "%m", "%d"}

\* does the text p match the regular expression of directive f
\*   %Y  \d\d\d\d
\*   %m  1[0-2]|0[1-9]|[1-9]
\*   %d  3[0-1]|[1-2]\d|0[1-9]|[1-9]| [1-9]
FieldOK(f, p) ==
    CASE f = "%Y" -> Len(p) = 4 /\ \A k \in 1..4 : IsDigit(p[k])
      [] f = "%m" ->
            \/ Len(p) = 2 /\ p[1] = "1" /\ p[2] \in {"0", "1", "2"}
            \/ Len(p) = 2 /\ p[1] = "0" /\ IsDigit(p[2]) /\ p[2] # "0"
            \/ Len(p) = 1 /\ IsDigit(p[1]) /\ p[1] # "0"
      [] f = "%d" ->
            \/ Len(p) = 2 /\ p[1] = "3" /\ p[2] \in {"0", "1"}
            \/ Len(p) = 2 /\ p[1] \in {"1", "2"} /\ IsDigit(p[2])
            \/ Len(p) = 2 /\ p[1] \in {"0", " "} /\ IsDigit(p[2]) /\ p[2] # "0"
            \/ Len(p) = 1 /\ IsDigit(p[1]) /\ p[1] # "0"

FieldValue(p) == IF p[1] = " " THEN Num(Tail(p)) ELSE Num(p)

\* every way the whole of s matches fmt: a set of sequences of
\* (directive, value) records
RECURSIVE Match(_, _)
Match(s, fmt) ==
    IF fmt = <<>> THEN (IF s = <<>> THEN {<<>>} ELSE {})
    ELSE LET f == Head(fmt) IN
         IF ~IsDirective(f)
         THEN IF s # <<>> /\ Head(s) = f THEN Match(Tail(s), Tail(fmt)) ELSE {}
         ELSE UNION {
                { <<[d |-> f, v |-> FieldValue(SubSeq(s, 1, n))]>> \o rest :
                    rest \in Match(SubSeq(s, n + 1, Len(s)), Tail(fmt)) } :
                n \in {k \in 1..Min(4, Len(s)) : FieldOK(f, SubSeq(s, 1, k))} }

FieldOf(parse, f, default) ==
    IF \E k \in 1..Len(parse) : parse[k].d = f
    THEN parse[CHOOSE k \in 1..Len(parse) : parse[k].d = f].v
    ELSE default

\* datetime(y, m, d) of the parsed fields: ValueError for a date that does not exist
DateOfFields(y, m, d) ==
    IF y < 1 \/ d > DaysInMonth(y, m) THEN [exc |-> TRUE]
    ELSE [exc |-> FALSE, dt |-> DateTime(y, m, d, 0)]

DateOfParse(p) ==
    DateOfFields(FieldOf(p, "%Y", 1900), FieldOf(p, "%m", 1), FieldOf(p, "%d", 1))

DateOfParses(parses) ==
    IF parses = {} THEN [exc |-> TRUE]
    ELSE DateOfParse(CHOOSE q \in parses : TRUE)

\* datetime.strptime(s, fmt): a datetime, or ValueError
strptime(s, fmt) == DateOfParses(Match(s, fmt))

-----------------------------------------------------------------------------
(* format_date                                                             *)

Return(v) == [kind |-> "return", value |-> v]
Raise == [kind |-> "raise"]

\* str(x)
Str(x) ==
    CASE x.t = "str" -> x.s
      [] x.t = "datetime" ->
            ZeroFill(Decimal(x.year), 4) \o <<"-">> \o ZeroFill(Decimal(x.month), 2)
                \o <<"-">> \o ZeroFill(Decimal(x.day), 2) \o <<" ">>
                \o ZeroFill(Decimal(x.sod \div 3600), 2) \o <<":">>
                \o ZeroFill(Decimal((x.sod \div 60) % 60), 2) \o <<":">>
                \o ZeroFill(Decimal(x.sod % 60), 2)
      [] x.t = "int" ->
            IF x.big THEN x.repr
            ELSE IF x.v < 0 THEN <<"-">> \o Decimal(0 - x.v) ELSE Decimal(x.v)
      [] OTHER -> x.repr

\* lines 57-61, the loop over the formats: the first format that parses
\* decides; r is what strptime gave for format k
RECURSIVE TryFormats(_, _)
RECURSIVE TryNextFormat(_, _, _)
TryNextFormat(r, s, k) == IF r.exc THEN TryFormats(s, k + 1) ELSE r

TryFormats(s, k) ==
    IF k > Len(Formats) THEN [exc |-> TRUE]
    ELSE TryNextFormat(strptime(s, Formats[k]), s, k)

\* line 52: the timestamp branch, r being what utcfromtimestamp gave
format_timestamp(r) == IF r.exc THEN Raise ELSE Return(strftime(r.dt))

\* lines 55-64: the string branch, r being what the loop over the formats gave
format_parsed(r, x) == IF r.exc THEN Return(Str(x)) ELSE Return(strftime(r.dt))

\* lines 46-64: the body of the try block of format_date
format_date_try(x) ==
    IF x.t = "datetime" THEN Return(strftime(x))
    ELSE IF x.t \in {"int", "bool"} THEN format_timestamp(utcfromtimestamp(x))
    ELSE IF x.t = "str" THEN format_parsed(TryFormats(x.s, 1), x)
    ELSE Return(Str(x))

\* format_date without its except clause
format_date_reraise(r, x) == r

\* lines 65-67: the except clause, r being the outcome of the try block
format_date_except(r, x) == IF r.kind = "raise" THEN Return(Str(x)) ELSE r

\* format_date
format_date(x) == format_date_except(format_date_try(x), x)

-----------------------------------------------------------------------------
(* Requests, upstream replies and JSON payloads                            *)

\* RepoRequest: frequency defaults to "week" when the field is left out
Omitted == [t |-> "omitted"]
RepoRequest(url, freq) ==
    [url |-> url,
     frequency |-> IF freq = Omitted THEN PyStr(<<"w", "e", "e", "k">>) ELSE freq]

FreqWeek == PyStr(<<"w", "e", "e", "k">>)
FreqDay == PyStr(<<"d", "a", "y">>)
FreqMonth == PyStr(<<"m", "o", "n", "t", "h">>)
FreqYear == PyStr(<<"y", "e", "a", "r">>)

\* parse_github_url(url): the (owner, repo) pair of a repository URL; it does
\* not yield a pair for a URL that names no repository
parse_github_url(url) ==
    IF url.ok THEN [exc |-> FALSE, owner |-> url.owner, repo |-> url.repo]
    ELSE [exc |-> TRUE]

\* JSON values: a list, null, or an object (a non-empty dict)
JList(items) == [j |-> "list", items |-> items]
JNull == [j |-> "null"]
JObject == [j |-> "object"]

\* one element of stats/commit_activity
WeeklyStat(week, total, days) ==
    [j |-> "week", week |-> week, total |-> total, days |-> days]

\* one element of stats/code_frequency: [week, additions, deletions]
Triple(week, additions, deletions) ==
    [j |-> "triple", v |-> <<week, additions, deletions>>]

\* the truth value of a JSON value or of a Python value
Truthy(v) ==
    IF "j" \in DOMAIN v
    THEN CASE v.j = "list" -> v.items # <<>>
           [] v.j = "null" -> FALSE
           [] OTHER -> TRUE
    ELSE CASE v.t = "NoneType" -> FALSE
           [] v.t = "str" -> v.s # <<>>
           [] OTHER -> TRUE

\* an HTTP response, and a transport error or timeout
Resp(status, body) == [kind |-> "resp", status |-> status, body |-> body]
TransportError == [kind |-> "error"]
Json(v) == [json |-> TRUE, v |-> v]
NotJson == [json |-> FALSE]

\* the handlers' return values
Message == [t |-> "message"]
EmptyList == [t |-> "list", items |-> <<>>]
EmptyMap == [k \in {} |-> 0]
Commits(m) == [t |-> "commits", commit_frequency |-> m]
PullRequests(o, c, m) == [t |-> "pulls", open |-> o, closed_unmerged |-> c, merged |-> m]

\* d[k] = v
Put(d, k, v) == [x \in (DOMAIN d) \cup {k} |-> IF x = k THEN v ELSE d[x]]

\* s.split(sep)
RECURSIVE Split(_, _)
Split(s, sep) ==
    IF \A k \in 1..Len(s) : s[k] # sep THEN <<s>>
    ELSE LET k == CHOOSE n \in 1..Len(s) : s[n] = sep /\ \A q \in 1..(n - 1) : s[q] # sep
         IN  <<SubSeq(s, 1, k - 1)>> \o Split(SubSeq(s, k + 1, Len(s)), sep)

-----------------------------------------------------------------------------
(* get_code_frequency                                                      *)

\* the state of a loop: the accumulator, or an exception that ended the loop
Ok(acc) == [exc |-> FALSE, m |-> acc]
Exc == [exc |-> TRUE]

\* lines 34-35, r being what utcfromtimestamp gave
code_frequency_append(r, week, acc) ==
    IF r.exc THEN Exc
    ELSE Ok(Append(acc.m, [Date |-> strftime(r.dt),
                           Additions |-> week.v[2],
                           Deletions |-> week.v[3]]))

\* lines 33-35: one turn of the loop; week[0] fails on what is no triple
code_frequency_step(week, acc) ==
    IF week.j # "triple" THEN Exc
    ELSE code_frequency_append(utcfromtimestamp(PyInt(week.v[1])), week, acc)

\* lines 32-36: the loop over stats
RECURSIVE code_frequency_loop(_, _, _)
code_frequency_loop(stats, k, acc) ==
    IF stats.j # "list" THEN Exc
    ELSE IF acc.exc \/ k > Len(stats.items) THEN acc
    ELSE code_frequency_loop(stats, k + 1, code_frequency_step(stats.items[k], acc))

\* line 36 and lines 38-40, r being the outcome of the loop
code_frequency_result(r) ==
    IF r.exc THEN Return(EmptyList) ELSE Return([t |-> "list", items |-> r.m])

\* lines 17-40: from the reply of client.get to the return
get_code_frequency_after_get(reply) ==
    IF reply.kind = "error" THEN Return(EmptyList)
    ELSE IF reply.status = 202 THEN Return(Message)
    ELSE IF reply.status # 200 THEN Return(EmptyList)
    ELSE IF ~reply.body.json THEN Return(EmptyList)
    ELSE IF ~Truthy(reply.body.v) THEN Return(EmptyList)
    ELSE code_frequency_result(code_frequency_loop(reply.body.v, 1, Ok(<<>>)))

-----------------------------------------------------------------------------
(* get_pull_requests                                                       *)

\* pr.get("merged_at")
PRGet(pr, key) == IF key \in DOMAIN pr THEN pr[key] ELSE NULL

\* line 76: sum(1 for pr in closed_prs if pr.get("merged_at"))
RECURSIVE CountMerged(_)
CountMerged(prs) ==
    IF prs = <<>> THEN 0
    ELSE (IF Truthy(PRGet(Head(prs), "merged_at")) THEN 1 ELSE 0) + CountMerged(Tail(prs))

\* the tally with closed_unmerged = len(closed_prs)
get_pull_requests_tally_no_subtract(open, closed) ==
    PullRequests(Len(open), Len(closed), CountMerged(closed))

\* lines 76-78
get_pull_requests_tally(open, closed) ==
    LET merged == CountMerged(closed)
        closed_unmerged == Len(closed) - merged
    IN  PullRequests(Len(open), closed_unmerged, merged)

PullRequestsDefault == PullRequests(0, 0, 0)

-----------------------------------------------------------------------------
(* get_commits                                                             *)

\* commit_frequency[date_str] = v, date_str being what format_date gave
put_date(acc, date_str, v) ==
    IF date_str.kind = "raise" THEN Exc
    ELSE Ok(Put(acc.m, date_str.value, v))

\* the week branch keeping the first total written for a date
week_step_keep_first(item, acc) ==
    IF item.j # "week" THEN Exc
    ELSE IF format_date(PyInt(item.week)).value \in DOMAIN acc.m THEN acc
    ELSE put_date(acc, format_date(PyInt(item.week)), item.total)

\* lines 116-117: one turn of the loop of the week branch
week_step(item, acc) ==
    IF item.j # "week" THEN Exc
    ELSE put_date(acc, format_date(PyInt(item.week)), item.total)

\* lines 115-117
RECURSIVE week_loop(_, _, _)
week_loop(stats, k, acc) ==
    IF stats.j # "list" THEN Exc
    ELSE IF acc.exc \/ k > Len(stats.items) THEN acc
    ELSE week_loop(stats, k + 1, week_step(stats.items[k], acc))

\* the day branch with commit_count >= 0
day_put_nonnegative(week_start, day_index, commit_count, acc) ==
    IF commit_count >= 0
    THEN put_date(acc, format_date(AddDays(week_start, day_index)), commit_count)
    ELSE acc

\* lines 124-127: one day of a week
day_put(week_start, day_index, commit_count, acc) ==
    IF commit_count > 0
    THEN put_date(acc, format_date(AddDays(week_start, day_index)), commit_count)
    ELSE acc

\* lines 123-127: the days of one week
RECURSIVE days_loop(_, _, _, _)
days_loop(week_start, days, day_index, acc) ==
    IF acc.exc \/ day_index >= Len(days) THEN acc
    ELSE days_loop(week_start, days, day_index + 1,
                   day_put(week_start, day_index, days[day_index + 1], acc))

\* lines 122-127, week_start being what utcfromtimestamp gave
days_of_week(week_start, days, acc) ==
    IF week_start.exc THEN Exc ELSE days_loop(week_start.dt, days, 0, acc)

\* lines 122-127: one turn of the loop of the day branch
day_step(item, acc) ==
    IF item.j # "week" THEN Exc
    ELSE days_of_week(utcfromtimestamp(PyInt(item.week)), item.days, acc)

\* lines 121-127
RECURSIVE day_loop(_, _, _)
day_loop(stats, k, acc) ==
    IF stats.j # "list" THEN Exc
    ELSE IF acc.exc \/ k > Len(stats.items) THEN acc
    ELSE day_loop(stats, k + 1, day_step(stats.items[k], acc))

\* line 134: f"{date.year}-{date.month:02d}"
month_key_of(date) == Decimal(date.year) \o <<"-">> \o ZeroFill(Decimal(date.month), 2)

\* the month branch with month_totals[month_key] = item['total']
month_add_overwrite(acc, month_key, total) == Ok(Put(acc.m, month_key, total))

\* lines 135-137
month_add(acc, month_key, total) ==
    Ok(Put(acc.m, month_key,
           (IF month_key \in DOMAIN acc.m THEN acc.m[month_key] ELSE 0) + total))

\* lines 133-137, date being what utcfromtimestamp gave
month_of_week(date, total, acc) ==
    IF date.exc THEN Exc ELSE month_add(acc, month_key_of(date.dt), total)

\* lines 133-137: one turn of the first loop of the month branch
month_step(item, acc) ==
    IF item.j # "week" THEN Exc
    ELSE month_of_week(utcfromtimestamp(PyInt(item.week)), item.total, acc)

\* lines 132-137
RECURSIVE month_totals_loop(_, _, _)
month_totals_loop(stats, k, acc) ==
    IF stats.j # "list" THEN Exc
    ELSE IF acc.exc \/ k > Len(stats.items) THEN acc
    ELSE month_totals_loop(stats, k + 1, month_step(stats.items[k], acc))

\* lines 141-145: one turn of the second loop, parts being month_key.split('-')
month_convert(parts, total, acc) ==
    IF Len(parts) # 2 THEN Exc
    ELSE put_date(acc, format_date(DateTime(Num(parts[1]), Num(parts[2]), 1, 0)), total)

\* lines 140-145: the keys of month_totals still to convert are todo
RECURSIVE month_convert_loop(_, _, _)
RECURSIVE month_convert_key(_, _, _, _)
month_convert_key(month_totals, todo, acc, month_key) ==
    month_convert_loop(month_totals, todo \ {month_key},
                       month_convert(Split(month_key, "-"), month_totals[month_key], acc))

month_convert_loop(month_totals, todo, acc) ==
    IF acc.exc \/ todo = {} THEN acc
    ELSE month_convert_key(month_totals, todo, acc, CHOOSE key \in todo : TRUE)

\* lines 139-145, r being the outcome of the first loop
month_convert_all(r, acc) ==
    IF r.exc THEN Exc ELSE month_convert_loop(r.m, DOMAIN r.m, acc)

\* lines 131-145
month_loop(stats, acc) == month_convert_all(month_totals_loop(stats, 1, Ok(EmptyMap)), acc)

\* the bucketing with the week branch as the else branch
bucket_else_week(stats, freq) ==
    IF freq = FreqDay THEN day_loop(stats, 1, Ok(EmptyMap))
    ELSE IF freq = FreqMonth THEN month_loop(stats, Ok(EmptyMap))
    ELSE week_loop(stats, 1, Ok(EmptyMap))

\* lines 110-145: the bucketing of a non-empty stats by frequency
bucket(stats, freq) ==
    IF freq = FreqWeek THEN week_loop(stats, 1, Ok(EmptyMap))
    ELSE IF freq = FreqDay THEN day_loop(stats, 1, Ok(EmptyMap))
    ELSE IF freq = FreqMonth THEN month_loop(stats, Ok(EmptyMap))
    ELSE Ok(EmptyMap)

\* line 147 and lines 149-151, r being the outcome of the bucketing
commits_result(r) ==
    IF r.exc THEN Return(Commits(EmptyMap)) ELSE Return(Commits(r.m))

\* get_commits with the status tests in the other order
get_commits_after_get_200_first(freq, reply) ==
    IF reply.kind = "error" THEN Return(Commits(EmptyMap))
    ELSE IF reply.status # 200 THEN Return(Commits(EmptyMap))
    ELSE IF reply.status = 202 THEN Return(Message)
    ELSE IF ~reply.body.json THEN Return(Commits(EmptyMap))
    ELSE IF ~Truthy(reply.body.v) THEN Return(Commits(EmptyMap))
    ELSE commits_result(bucket(reply.body.v, freq))

\* lines 94-151: from the reply of client.get to the return
get_commits_after_get(freq, reply) ==
    IF reply.kind = "error" THEN Return(Commits(EmptyMap))
    ELSE IF reply.status = 202 THEN Return(Message)
    ELSE IF reply.status # 200 THEN Return(Commits(EmptyMap))
    ELSE IF ~reply.body.json THEN Return(Commits(EmptyMap))
    ELSE IF ~Truthy(reply.body.v) THEN Return(Commits(EmptyMap))
    ELSE commits_result(bucket(reply.body.v, freq))

-----------------------------------------------------------------------------
(* The handlers as processes: one action per stretch of code between two   *)
(* await points.  Between two awaits a handler runs without interruption.  *)

Unset == [t |-> "unset"]
NoResponse == [kind |-> "none"]

\* lines 13-17: get_code_frequency up to the await of client.get; the URL is
\* parsed before the try block is entered
get_code_frequency_call(i, req) ==
    /\ pc[i] = "idle"
    /\ handler' = [handler EXCEPT ![i] = "get_code_frequency"]
    /\ request' = [request EXCEPT ![i] = req]
    /\ LET p == parse_github_url(req.url) IN
       IF p.exc
       THEN /\ response' = [response EXCEPT ![i] = Raise]
            /\ pc' = [pc EXCEPT ![i] = "done"]
            /\ UNCHANGED owner_repo
       ELSE /\ owner_repo' = [owner_repo EXCEPT ![i] = [owner |-> p.owner, repo |-> p.repo]]
            /\ pc' = [pc EXCEPT ![i] = "await_get"]
            /\ UNCHANGED response
    /\ UNCHANGED <<frequency, open_prs, replies, padYear, fdVars>>

\* lines 17-40: get_code_frequency from the reply of client.get on
get_code_frequency_resume(i, reply) ==
    /\ pc[i] = "await_get"
    /\ handler[i] = "get_code_frequency"
    /\ replies' = [replies EXCEPT ![i] = Append(@, reply)]
    /\ response' = [response EXCEPT ![i] = get_code_frequency_after_get(reply)]
    /\ pc' = [pc EXCEPT ![i] = "done"]
    /\ UNCHANGED <<handler, request, owner_repo, frequency, open_prs, padYear, fdVars>>

\* lines 71-74: get_pull_requests up to the await of the first fetch_all_prs
get_pull_requests_call(i, req) ==
    /\ pc[i] = "idle"
    /\ handler' = [handler EXCEPT ![i] = "get_pull_requests"]
    /\ request' = [request EXCEPT ![i] = req]
    /\ LET p == parse_github_url(req.url) IN
       IF p.exc
       THEN /\ response' = [response EXCEPT ![i] = Return(PullRequestsDefault)]
            /\ pc' = [pc EXCEPT ![i] = "done"]
            /\ UNCHANGED owner_repo
       ELSE /\ owner_repo' = [owner_repo EXCEPT ![i] = [owner |-> p.owner, repo |-> p.repo]]
            /\ pc' = [pc EXCEPT ![i] = "await_open"]
            /\ UNCHANGED response
    /\ UNCHANGED <<frequency, open_prs, replies, padYear, fdVars>>

\* lines 74-75: the first fetch_all_prs returns (or raises); the second is awaited
get_pull_requests_open(i, fetched) ==
    /\ pc[i] = "await_open"
    /\ replies' = [replies EXCEPT ![i] = Append(@, fetched)]
    /\ IF fetched.kind = "error"
       THEN /\ response' = [response EXCEPT ![i] = Return(PullRequestsDefault)]
            /\ pc' = [pc EXCEPT ![i] = "done"]
            /\ UNCHANGED open_prs
       ELSE /\ open_prs' = [open_prs EXCEPT ![i] = fetched.prs]
            /\ pc' = [pc EXCEPT ![i] = "await_closed"]
            /\ UNCHANGED response
    /\ UNCHANGED <<handler, request, owner_repo, frequency, padYear, fdVars>>

\* lines 75-81: the second fetch_all_prs returns (or raises); the tally
get_pull_requests_closed(i, fetched) ==
    /\ pc[i] = "await_closed"
    /\ replies' = [replies EXCEPT ![i] = Append(@, fetched)]
    /\ response' = [response EXCEPT ![i] =
                       IF fetched.kind = "error" THEN Return(PullRequestsDefault)
                       ELSE Return(get_pull_requests_tally(open_prs[i], fetched.prs))]
    /\ pc' = [pc EXCEPT ![i] = "done"]
    /\ UNCHANGED <<handler, request, owner_repo, frequency, open_prs, padYear, fdVars>>

\* get_commits with frequency kept in one variable of the module
get_commits_call_shared(i, req) ==
    /\ pc[i] = "idle"
    /\ handler' = [handler EXCEPT ![i] = "get_commits"]
    /\ request' = [request EXCEPT ![i] = req]
    /\ IF parse_github_url(req.url).exc
       THEN /\ response' = [response EXCEPT ![i] = Return(Commits(EmptyMap))]
            /\ pc' = [pc EXCEPT ![i] = "done"]
            /\ UNCHANGED <<owner_repo, frequency>>
       ELSE /\ owner_repo' = [owner_repo EXCEPT ![i] =
                                 [owner |-> req.url.owner, repo |-> req.url.repo]]
            /\ frequency' = [j \in DOMAIN frequency |-> req.frequency]
            /\ pc' = [pc EXCEPT ![i] = "await_get"]
            /\ UNCHANGED response
    /\ UNCHANGED <<open_prs, replies, padYear, fdVars>>

\* lines 85-94: get_commits up to the await of client.get
get_commits_call(i, req) ==
    /\ pc[i] = "idle"
    /\ handler' = [handler EXCEPT ![i] = "get_commits"]
    /\ request' = [request EXCEPT ![i] = req]
    /\ LET p == parse_github_url(req.url) IN
       IF p.exc
       THEN /\ response' = [response EXCEPT ![i] = Return(Commits(EmptyMap))]
            /\ pc' = [pc EXCEPT ![i] = "done"]
            /\ UNCHANGED <<owner_repo, frequency>>
       ELSE /\ owner_repo' = [owner_repo EXCEPT ![i] = [owner |-> p.owner, repo |-> p.repo]]
            /\ frequency' = [frequency EXCEPT ![i] = req.frequency]
            /\ pc' = [pc EXCEPT ![i] = "await_get"]
            /\ UNCHANGED response
    /\ UNCHANGED <<open_prs, replies, padYear, fdVars>>

\* lines 94-151: get_commits from the reply of client.get on
get_commits_resume(i, reply) ==
    /\ pc[i] = "await_get"
    /\ handler[i] = "get_commits"
    /\ replies' = [replies EXCEPT ![i] = Append(@, reply)]
    /\ response' = [response EXCEPT ![i] = get_commits_after_get(frequency[i], reply)]
    /\ pc' = [pc EXCEPT ![i] = "done"]
    /\ UNCHANGED <<handler, request, owner_repo, frequency, open_prs, padYear, fdVars>>

\* a direct call of format_date
format_date_call(x) ==
    /\ fd_pc = "start"
    /\ fd_in' = x
    /\ fd_out' = <<format_date(x)>>
    /\ fd_pc' = "once"
    /\ UNCHANGED <<handlerVars, padYear>>

\* format_date applied to the string an earlier call returned
format_date_again ==
    /\ fd_pc = "once"
    /\ fd_out[1].kind = "return"
    /\ fd_out' = Append(fd_out, format_date(PyStr(fd_out[1].value)))
    /\ fd_pc' = "twice"
    /\ UNCHANGED <<handlerVars, padYear, fd_in>>

-----------------------------------------------------------------------------
(* Bounds and input sets                                                   *)

NumInv == 2       \* invocations in flight at once
MaxWeeks == 2     \* elements of an upstream stats payload
MaxPRs == 2       \* pull requests of one state

Invocations == 1..NumInv

SeqsUpTo(S, n) == UNION {[1..k -> S] : k \in 0..n}

GoodUrl == [ok |-> TRUE, owner |-> "octocat", repo |-> "hello"]
BadUrl == [ok |-> FALSE]
Urls == {GoodUrl, BadUrl}

FreqInputs == {Omitted, FreqDay, FreqWeek, FreqMonth, FreqYear, NULL}

Requests == {RepoRequest(u, f) : u \in Urls, f \in FreqInputs}

\* week starts: Sundays 2024-02-25, 2024-03-03, 2024-03-10 at 00:00 UTC, and
\* 2023-11-14 22:13:20 UTC
Timestamps == {1708819200, 1709424000, 1710028800, 1700000000}

Totals == {5, 7}

DayVectors == { <<0, 0, 0, 0, 0, 0, 0>>, <<1, 0, 0, 0, 2, 0, 1>> }

WeeklyStats == {WeeklyStat(w, n, d) : w \in Timestamps, n \in Totals, d \in DayVectors}

\* the bodies of a stats endpoint: not JSON, null, an object, and lists of up
\* to n elements
Bodies(items, n) ==
    {NotJson, Json(JNull), Json(JObject)} \cup {Json(JList(q)) : q \in SeqsUpTo(items, n)}

CommitItems == WeeklyStats \cup {JObject}

CodeFrequencyItems == {Triple(1709424000, 10, -3), Triple(1700000000, 0, 0), JObject}

\* what client.get gives: a transport error, status 200 with any body of up to
\* MaxWeeks elements, or another status with any body of up to one element
GetReplies(items) ==
    {TransportError}
        \cup {Resp(200, b) : b \in Bodies(items, MaxWeeks)}
        \cup {Resp(st, b) : st \in {202, 404}, b \in Bodies(items, 1)}

MergedAt == PyStr(<<"2", "0", "2", "4", "-", "0", "1", "-", "0", "1">>)

OpenPRs == {[number |-> 1, merged_at |-> NULL], [number |-> 2, merged_at |-> NULL]}

ClosedPRs ==
    { [number |-> 3, merged_at |-> NULL], [number |-> 4, merged_at |-> MergedAt],
      [number |-> 5, merged_at |-> PyStr(<<>>)], [number |-> 6] }

FetchReplies(prs) ==
    {[kind |-> "error"]} \cup {[kind |-> "list", prs |-> s] : s \in SeqsUpTo(prs, MaxPRs)}

-----------------------------------------------------------------------------
(* Spec: one invocation at a time, over the full input sets                *)

Init ==
    /\ pc = [i \in Invocations |-> "idle"]
    /\ handler = [i \in Invocations |-> "none"]
    /\ request = [i \in Invocations |-> Unset]
    /\ owner_repo = [i \in Invocations |-> Unset]
    /\ frequency = [i \in Invocations |-> Unset]
    /\ open_prs = [i \in Invocations |-> <<>>]
    /\ replies = [i \in Invocations |-> <<>>]
    /\ response = [i \in Invocations |-> NoResponse]
    /\ padYear \in BOOLEAN
    /\ fd_pc = "start"
    /\ fd_in = Unset
    /\ fd_out = <<>>

Next ==
    \/ \E req \in Requests : get_code_frequency_call(1, req)
    \/ \E reply \in GetReplies(CodeFrequencyItems) : get_code_frequency_resume(1, reply)
    \/ \E req \in Requests : get_pull_requests_call(1, req)
    \/ \E fetched \in FetchReplies(OpenPRs) : get_pull_requests_open(1, fetched)
    \/ \E fetched \in FetchReplies(ClosedPRs) : get_pull_requests_closed(1, fetched)
    \/ \E req \in Requests : get_commits_call(1, req)
    \/ \E reply \in GetReplies(CommitItems) : get_commits_resume(1, reply)

Spec == Init /\ [][Next]_vars

-----------------------------------------------------------------------------
(* SpecFormat: format_date called directly, and again on what it returned  *)

YearTexts == { <<"2", "0", "2", "4">>, <<"2", "0", "2", "3">>, <<"0", "9", "9", "9">>, <<"0", "0", "0", "0">> }
MonthTexts == { <<"0", "2">>, <<"2">>, <<"1", "2">>, <<"1", "3">> }
DayTexts == { <<"2", "9">>, <<"3", "0">>, <<"1">>, <<"0", "1">>, <<" ", "1">>, <<"1", "2">> }

\* strings in the five layouts, with fields that do and do not make a date
DateStrings ==
    UNION { { y \o <<"-">> \o m,
              y \o <<"-">> \o m \o <<"-">> \o d,
              y \o <<"/">> \o m \o <<"/">> \o d,
              d \o <<"/">> \o m \o <<"/">> \o y,
              m \o <<"/">> \o d \o <<"/">> \o y } :
            y \in YearTexts, m \in MonthTexts, d \in DayTexts }

OtherStrings == { <<>>, <<"a", "b", "c">>, <<"2", "0", "2", "4", "-", "0", "3", "-", "0", "1", "T", "0", "0", ":", "0", "0", ":", "0", "0", "Z">>, <<"2", "0", "2", "4", "0", "3", "0", "1">>, <<"2", "0", "2", "4", "-", "0", "3", "-", "0", "1", "1">> }

FormatDateInputs ==
    {PyStr(str) : str \in DateStrings \cup OtherStrings}
        \cup {PyInt(n) : n \in Timestamps \cup {0, -1}}
        \cup {PyBigInt(<<"2", "5", "3", "4", "0", "2", "3", "0", "0", "8", "0", "0">>), PyBigInt(<<"1", "0", "0", "0", "0", "0", "0", "0", "0", "0", "0", "0", "0", "0", "0", "0", "0", "0", "0", "0", "0">>)}
        \cup {PyBool(TRUE), PyBool(FALSE)}
        \cup {DateTime(2024, 2, 29, 0), DateTime(999, 12, 31, 86399)}
        \cup {NULL, PyOther("float", <<"1", ".", "5">>), PyOther("list", <<"[", "]">>)}

NextFormat ==
    \/ \E x \in FormatDateInputs : format_date_call(x)
    \/ format_date_again

SpecFormat == Init /\ [][NextFormat]_vars

-----------------------------------------------------------------------------
(* SpecConc: several invocations interleaved at their await points         *)

ConcRequests == {RepoRequest(u, f) : u \in Urls, f \in {FreqWeek, FreqDay}}

ConcWeek == WeeklyStat(1709424000, 5, <<1, 0, 0, 0, 2, 0, 1>>)

ConcGetReplies ==
    { TransportError, Resp(202, NotJson), Resp(200, Json(JList(<<ConcWeek>>))) }

ConcCodeFrequencyReplies ==
    { TransportError, Resp(202, NotJson),
      Resp(200, Json(JList(<<Triple(1709424000, 10, -3)>>))) }

ConcOpenReplies ==
    { [kind |-> "error"], [kind |-> "list", prs |-> <<>>],
      [kind |-> "list", prs |-> <<[number |-> 1, merged_at |-> NULL],
                                  [number |-> 2, merged_at |-> NULL]>>] }

ConcClosedReplies ==
    { [kind |-> "list", prs |-> <<[number |-> 4, merged_at |-> MergedAt]>>],
      [kind |-> "list", prs |-> <<[number |-> 3, merged_at |-> NULL],
                                  [number |-> 4, merged_at |-> MergedAt]>>] }

NextConc ==
    \E i \in Invocations :
        \/ \E req \in ConcRequests : get_code_frequency_call(i, req)
        \/ \E reply \in ConcCodeFrequencyReplies : get_code_frequency_resume(i, reply)
        \/ \E req \in ConcRequests : get_pull_requests_call(i, req)
        \/ \E fetched \in ConcOpenReplies : get_pull_requests_open(i, fetched)
        \/ \E fetched \in ConcClosedReplies : get_pull_requests_closed(i, fetched)
        \/ \E req \in ConcRequests : get_commits_call(i, req)
        \/ \E reply \in ConcGetReplies : get_commits_resume(i, reply)

SpecConc == Init /\ [][NextConc]_vars

-----------------------------------------------------------------------------
(* What the properties speak of                                            *)

Done(i) == pc[i] = "done"

\* the invocation got an HTTP response to its client.get
GotResponse(i) ==
    /\ Done(i)
    /\ handler[i] \in {"get_commits", "get_code_frequency"}
    /\ Len(replies[i]) = 1
    /\ replies[i][1].kind = "resp"

StatusOf(i) == replies[i][1].status
BodyOf(i) == replies[i][1].body

DefaultOf(h) ==
    CASE h = "get_code_frequency" -> EmptyList
      [] h = "get_pull_requests" -> PullRequestsDefault
      [] h = "get_commits" -> Commits(EmptyMap)

\* a payload that is not the JSON list of well-formed elements the handler expects
Malformed(body, kind) ==
    \/ ~body.json
    \/ body.v.j = "object"
    \/ body.v.j = "list" /\ \E k \in 1..Len(body.v.items) : body.v.items[k].j # kind

\* a failure happened while the invocation was served
Failed(i) ==
    \/ ~request[i].url.ok
    \/ \E k \in 1..Len(replies[i]) : replies[i][k].kind = "error"
    \/ /\ GotResponse(i)
       /\ StatusOf(i) = 200
       /\ Malformed(BodyOf(i), IF handler[i] = "get_commits" THEN "week" ELSE "triple")

\* get_commits got status 200 and a JSON list of well-formed weekly stats
BucketCase(i, freq) ==
    /\ GotResponse(i)
    /\ handler[i] = "get_commits"
    /\ request[i].frequency = freq
    /\ StatusOf(i) = 200
    /\ BodyOf(i).json
    /\ BodyOf(i).v.j = "list"
    /\ \A k \in 1..Len(BodyOf(i).v.items) : BodyOf(i).v.items[k].j = "week"

ItemsOf(i) == BodyOf(i).v.items
MappingOf(i) == response[i].value.commit_frequency

\* YYYY-MM-DD of a civil date, as text
DateText(c) ==
    ZeroFill(Decimal(c.year), 4) \o <<"-">> \o ZeroFill(Decimal(c.month), 2)
        \o <<"-">> \o ZeroFill(Decimal(c.day), 2)

\* the UTC date on which a timestamp falls, a number of days later
DateOfTimestamp(ts, days) == CivilFromDays((ts \div 86400) + days)

RECURSIVE SumSeq(_)
SumSeq(q) == IF q = <<>> THEN 0 ELSE Head(q) + SumSeq(Tail(q))

RECURSIVE SumOver(_, _)
SumOver(f, S) ==
    IF S = {} THEN 0
    ELSE LET x == CHOOSE y \in S : TRUE IN f[x] + SumOver(f, S \ {x})

-----------------------------------------------------------------------------
(* C1: for every failure while serving a request (the URL does not resolve *)
(* to an (owner, repo) pair, a transport error or timeout, a malformed     *)
(* upstream payload) the handler does not raise to its caller and returns  *)
(* its own empty default.                                                  *)
C1_FailureGivesDefault ==
    \A i \in Invocations :
        Done(i) /\ Failed(i) => response[i] = Return(DefaultOf(handler[i]))

-----------------------------------------------------------------------------
(* C2: in get_commits and get_code_frequency the upstream status decides   *)
(* before the body is used: status 202 always yields the message object,   *)
(* and every status other than 200 and 202 always yields the handler's     *)
(* empty default, whatever the body contains.                              *)
C2_StatusDecides ==
    \A i \in Invocations :
        GotResponse(i) =>
            /\ StatusOf(i) = 202 => response[i] = Return(Message)
            /\ StatusOf(i) \notin {200, 202} => response[i] = Return(DefaultOf(handler[i]))

C2_Witness ==
    \E i \in Invocations :
        /\ GotResponse(i)
        /\ handler[i] = "get_commits"
        /\ StatusOf(i) = 202
        /\ BodyOf(i).json /\ BodyOf(i).v.j = "list" /\ BodyOf(i).v.items # <<>>
        /\ response[i] = Return(Message)

-----------------------------------------------------------------------------
(* C3 as claimed: with frequency week and a non-empty list of weekly       *)
(* stats, every input week's normalized date maps to that week's total,    *)
(* and the number of entries equals the number of input weeks.             *)
WeekKey(w) == format_date(PyInt(w.week)).value

C3_OneEntryPerWeek ==
    \A i \in Invocations :
        BucketCase(i, FreqWeek) /\ ItemsOf(i) # <<>> =>
            /\ \A k \in 1..Len(ItemsOf(i)) :
                  /\ WeekKey(ItemsOf(i)[k]) \in DOMAIN MappingOf(i)
                  /\ MappingOf(i)[WeekKey(ItemsOf(i)[k])] = ItemsOf(i)[k].total
            /\ Cardinality(DOMAIN MappingOf(i)) = Len(ItemsOf(i))

(* C3 as amended: the keys of the result are exactly the normalized dates  *)
(* of the input weeks' timestamps, and each key maps to the total of the   *)
(* last input week with that normalized date; so the number of entries is  *)
(* the number of distinct normalized dates, and there is one entry per     *)
(* input week when those dates are pairwise distinct.                      *)
C3_LastWeekPerDate ==
    \A i \in Invocations :
        BucketCase(i, FreqWeek) /\ ItemsOf(i) # <<>> =>
            LET items == ItemsOf(i)
                LastWith(key) ==
                    CHOOSE k \in 1..Len(items) :
                        /\ WeekKey(items[k]) = key
                        /\ \A n \in (k + 1)..Len(items) : WeekKey(items[n]) # key
            IN  /\ DOMAIN MappingOf(i) = {WeekKey(items[k]) : k \in 1..Len(items)}
                /\ \A key \in DOMAIN MappingOf(i) :
                      MappingOf(i)[key] = items[LastWith(key)].total
                /\ (\A k, n \in 1..Len(items) :
                        k # n => WeekKey(items[k]) # WeekKey(items[n]))
                     => /\ Cardinality(DOMAIN MappingOf(i)) = Len(items)
                        /\ \A k \in 1..Len(items) :
                              MappingOf(i)[WeekKey(items[k])] = items[k].total

C3_Witness ==
    \E i \in Invocations :
        /\ BucketCase(i, FreqWeek)
        /\ Len(ItemsOf(i)) = 2
        /\ ItemsOf(i)[1].week = ItemsOf(i)[2].week
        /\ ItemsOf(i)[1].total = 5 /\ ItemsOf(i)[2].total = 7
        /\ Cardinality(DOMAIN MappingOf(i)) = 1

-----------------------------------------------------------------------------
(* C4: with frequency month the result has exactly one entry per distinct  *)
(* UTC (year, month) of the week-start timestamps, keyed by the YYYY-MM-01 *)
(* date of that month, whose value is the sum of the totals of the input   *)
(* weeks in that month; the values sum to the sum of all input totals, and *)
(* two weeks in 2024-03 with totals 5 and 7 give {"2024-03-01": 12}.       *)
MonthOf(w) ==
    [year |-> DateOfTimestamp(w.week, 0).year,
     month |-> DateOfTimestamp(w.week, 0).month, day |-> 1]

March2024 == <<"2", "0", "2", "4", "-", "0", "3", "-", "0", "1">>

C4_MonthSums ==
    \A i \in Invocations :
        BucketCase(i, FreqMonth) =>
            LET items == ItemsOf(i)
                Weeks == 1..Len(items)
                In(key) == {k \in Weeks : DateText(MonthOf(items[k])) = key}
                totals == [k \in Weeks |-> items[k].total]
            IN  /\ DOMAIN MappingOf(i) = {DateText(MonthOf(items[k])) : k \in Weeks}
                /\ Cardinality(DOMAIN MappingOf(i))
                      = Cardinality({MonthOf(items[k]) : k \in Weeks})
                /\ \A key \in DOMAIN MappingOf(i) :
                      MappingOf(i)[key] = SumOver(totals, In(key))
                /\ SumOver(MappingOf(i), DOMAIN MappingOf(i)) = SumSeq(totals)
                /\ (/\ Len(items) = 2
                    /\ items[1].week = 1709424000 /\ items[1].total = 5
                    /\ items[2].week = 1710028800 /\ items[2].total = 7)
                     => MappingOf(i) = [key \in {March2024} |-> 12]

C4_Witness ==
    \E i \in Invocations :
        /\ BucketCase(i, FreqMonth)
        /\ Len(ItemsOf(i)) = 2
        /\ ItemsOf(i)[1].week = 1709424000 /\ ItemsOf(i)[1].total = 5
        /\ ItemsOf(i)[2].week = 1710028800 /\ ItemsOf(i)[2].total = 7
        /\ DOMAIN MappingOf(i) = {March2024}
        /\ MappingOf(i)[March2024] = 12

-----------------------------------------------------------------------------
(* C5: with frequency day the result never has a key for a day whose count *)
(* is 0: every entry (k, v) has v > 0 and comes from an input week and an  *)
(* index i in 0..6 with dailyCounts[i] = v and k the normalized date of    *)
(* weekStart + i days; and every day with a positive count has its key in  *)
(* the result.                                                             *)
C5_DayEntries ==
    \A i \in Invocations :
        BucketCase(i, FreqDay) =>
            LET items == ItemsOf(i)
                DayKey(k, d) == DateText(DateOfTimestamp(items[k].week, d))
            IN  /\ \A key \in DOMAIN MappingOf(i) :
                      /\ MappingOf(i)[key] > 0
                      /\ \E k \in 1..Len(items), d \in 0..6 :
                            /\ items[k].days[d + 1] = MappingOf(i)[key]
                            /\ key = DayKey(k, d)
                /\ \A k \in 1..Len(items), d \in 0..6 :
                      items[k].days[d + 1] > 0 => DayKey(k, d) \in DOMAIN MappingOf(i)

C5_Witness ==
    \E i \in Invocations :
        /\ BucketCase(i, FreqDay)
        /\ Len(ItemsOf(i)) = 1
        /\ ItemsOf(i)[1].week = 1708819200
        /\ ItemsOf(i)[1].days = <<1, 0, 0, 0, 2, 0, 1>>
        /\ DOMAIN MappingOf(i) = { <<"2", "0", "2", "4", "-", "0", "2", "-", "2", "5">>, <<"2", "0", "2", "4", "-", "0", "2", "-", "2", "9">>, <<"2", "0", "2", "4", "-", "0", "3", "-", "0", "2">> }
        /\ MappingOf(i)[ <<"2", "0", "2", "4", "-", "0", "2", "-", "2", "9">> ] = 2

-----------------------------------------------------------------------------
(* C6 as claimed: when both fetches succeed, open is the number of open    *)
(* records, merged the number of closed records whose merged-at field is   *)
(* non-null, and closed_unmerged the size of the closed set minus merged.  *)
PullRequestsCase(i) ==
    /\ Done(i)
    /\ handler[i] = "get_pull_requests"
    /\ Len(replies[i]) = 2
    /\ replies[i][1].kind = "list"
    /\ replies[i][2].kind = "list"

NonNull(prs) ==
    {k \in 1..Len(prs) : "merged_at" \in DOMAIN prs[k] /\ prs[k].merged_at # NULL}

C6_MergedIsNonNull ==
    \A i \in Invocations :
        PullRequestsCase(i) =>
            LET open == replies[i][1].prs
                closed == replies[i][2].prs
                merged == Cardinality(NonNull(closed))
            IN  response[i] = Return(PullRequests(Len(open), Len(closed) - merged, merged))

(* C6 as amended: merged is the number of closed records whose merged-at   *)
(* value is truthy (present, not null and not empty); for records whose    *)
(* merged-at is null or a timestamp that is the number with a non-null     *)
(* merged-at.                                                              *)
C6_MergedIsTruthy ==
    \A i \in Invocations :
        PullRequestsCase(i) =>
            LET open == replies[i][1].prs
                closed == replies[i][2].prs
                merged == Cardinality({k \in NonNull(closed) : closed[k].merged_at # PyStr(<<>>)})
            IN  /\ response[i] = Return(PullRequests(Len(open), Len(closed) - merged, merged))
                /\ (\A k \in NonNull(closed) : closed[k].merged_at # PyStr(<<>>))
                     => response[i].value.merged = Cardinality(NonNull(closed))

C6_Witness ==
    \E i \in Invocations :
        /\ PullRequestsCase(i)
        /\ Len(replies[i][1].prs) = 2
        /\ Len(replies[i][2].prs) = 2
        /\ PRGet(replies[i][2].prs[1], "merged_at") = NULL
        /\ PRGet(replies[i][2].prs[2], "merged_at") = MergedAt
        /\ response[i] = Return(PullRequests(2, 1, 1))

-----------------------------------------------------------------------------
(* C7 as claimed: format_date never raises, for an input of any type, and  *)
(* for every input that is not recognized (a string matching none of the   *)
(* five formats, or a value of another type) it returns a non-empty        *)
(* string, the input's string representation unchanged.                    *)
Unrecognized(x) ==
    \/ x.t = "str" /\ \A k \in 1..Len(Formats) : strptime(x.s, Formats[k]).exc
    \/ x.t \notin {"str", "int", "bool", "datetime"}

ReprOf(x) == IF x.t = "str" THEN x.s ELSE x.repr

C7_UnrecognizedNonEmpty ==
    fd_pc # "start" =>
        /\ fd_out[1].kind = "return"
        /\ Unrecognized(fd_in) =>
              /\ fd_out[1].value # <<>>
              /\ fd_out[1].value = ReprOf(fd_in)

(* C7 as amended: format_date never raises, for an input of any type, and  *)
(* for every input that is not recognized it returns the input's string    *)
(* representation unchanged; that is a non-empty string unless the         *)
(* representation is itself empty, as for the empty string.                *)
C7_NeverRaisesReturnsRepr ==
    fd_pc # "start" =>
        /\ fd_out[1].kind = "return"
        /\ Unrecognized(fd_in) =>
              /\ fd_out[1].value = ReprOf(fd_in)
              /\ fd_in # PyStr(<<>>) => fd_out[1].value # <<>>

C7_Witness ==
    /\ fd_pc # "start"
    /\ fd_in = PyStr( <<"2", "0", "2", "4", "-", "0", "2", "-", "3", "0">> )
    /\ Unrecognized(fd_in)
    /\ fd_out[1] = Return( <<"2", "0", "2", "4", "-", "0", "2", "-", "3", "0">> )

-----------------------------------------------------------------------------
(* C8: format_date is idempotent on every string in one of the recognized  *)
(* formats: what it returns for such a string is a fixed point.            *)
C8_Idempotent ==
    fd_pc = "twice" /\ fd_in.t = "str" /\ ~Unrecognized(fd_in) => fd_out[2] = fd_out[1]

C8_Witness ==
    /\ fd_pc = "twice"
    /\ fd_in = PyStr( <<"1", "2", "/", "2", "9", "/", "2", "0", "2", "4">> )
    /\ fd_out[1] = Return( <<"2", "0", "2", "4", "-", "1", "2", "-", "2", "9">> )
    /\ fd_out[2] = Return( <<"2", "0", "2", "4", "-", "1", "2", "-", "2", "9">> )

-----------------------------------------------------------------------------
(* C9: in get_commits, when the frequency is none of day, week, month (any *)
(* other string, or null) the result mapping is empty for every upstream   *)
(* payload, and when the weekly-stat sequence is empty it is empty for     *)
(* every frequency; the response is {commit_frequency: {}}.                *)
C9_EmptyMapping ==
    \A i \in Invocations :
        GotResponse(i) /\ handler[i] = "get_commits" /\ StatusOf(i) = 200 =>
            /\ request[i].frequency \notin {FreqDay, FreqWeek, FreqMonth}
                  => response[i] = Return(Commits(EmptyMap))
            /\ BodyOf(i).json /\ BodyOf(i).v = JList(<<>>)
                  => response[i] = Return(Commits(EmptyMap))

C9_Witness ==
    \E i \in Invocations :
        /\ BucketCase(i, NULL)
        /\ Len(ItemsOf(i)) = 2
        /\ response[i] = Return(Commits(EmptyMap))

-----------------------------------------------------------------------------
(* C10: interleaved invocations do not interfere: each invocation's        *)
(* response is the one it produces running alone on the same request and   *)
(* the same upstream replies.                                              *)
Alone(h, req, reps) ==
    CASE h = "get_code_frequency" ->
            IF ~req.url.ok THEN Raise ELSE get_code_frequency_after_get(reps[1])
      [] h = "get_pull_requests" ->
            IF ~req.url.ok \/ reps[1].kind = "error" THEN Return(PullRequestsDefault)
            ELSE IF reps[2].kind = "error" THEN Return(PullRequestsDefault)
            ELSE Return(get_pull_requests_tally(reps[1].prs, reps[2].prs))
      [] h = "get_commits" ->
            IF ~req.url.ok THEN Return(Commits(EmptyMap))
            ELSE get_commits_after_get(req.frequency, reps[1])

C10_NoInterference ==
    \A i \in Invocations :
        Done(i) => response[i] = Alone(handler[i], request[i], replies[i])

C10_Witness ==
    \E i, j \in Invocations :
        /\ i # j
        /\ BucketCase(i, FreqWeek) /\ BucketCase(j, FreqDay)
        /\ replies[i] = replies[j]
        /\ Cardinality(DOMAIN MappingOf(i)) = 1
        /\ Cardinality(DOMAIN MappingOf(j)) = 3

=============================================================================
